---- MODULE Spec2Model ----
(***************************************************************************)
(* Model of pepbind-SVM: generateFeatures.py (k-mer feature generation and *)
(* row assembly) and predict.py (SVM training / evaluation report).        *)
(*                                                                         *)
(* Encoding.  A Python str is a sequence of characters, a one-character    *)
(* str is a sequence of length one.  A composition value round(x, 3) is    *)
(* held as the integer 1000 * round(x, 3) (fixed point, thousandths); an   *)
(* occurrence value is the plain integer count.  A call either returns a   *)
(* value or raises: [err |-> exception name or "none", val |-> value].     *)
(***************************************************************************)
EXTENDS Integers, Sequences, FiniteSets, TLC

VARIABLES
  \* --- a direct call of one of the two n-gram functions ---
  fn,              \* "generate_ngram_composition" | "generate_ngram_occurences" | "none"
  sequence, n,     \* its arguments
  ngrams,          \* its local list ngrams
  ngram_features,  \* the returned list
  npc,             \* "idle" | "start" | "ngrams" | "returned" | "raised"
  nerr,            \* the exception that ended the call, or "none"
  \* --- a run of process_features(data_path, features) ---
  csv,             \* the records of the file at data_path, in file order
  features,        \* the argument features
  perm,            \* the row permutation drawn by data_df.sample(frac = 1)
  data_df,         \* the DataFrame: a sequence of rows, a row maps column -> cell
  X_data, label, sequences,   \* the three returned values
  ppc,             \* "idle" | "start" | "shuffled" | "generated" | "returned" | "raised"
  perr,            \* the exception that ended the run, or "none"
  \* --- a call of classifiers(x_train, y_train, x_test, y_test, ..., model, args) ---
  model,           \* the argument model
  y_train, y_test, \* the label vectors
  model1,          \* the local model1: "unbound" | "rbf" | "linear"
  fitted,          \* model1.fit has returned
  y_pred,          \* model1.predict(x_test)
  CM,              \* the accumulated 2x2 matrix CM
  accuray, F1_Score, Recall, AUC,   \* the metric lists
  output_csv,      \* the rows written to output.csv
  printed,         \* the printed report, <<>> before it is printed
  cpc,             \* "idle" | "start" | "selected" | "fitted" | "predicted" |
                   \* "scored" | "written" | "printed" | "raised"
  cerr             \* the exception that ended the call, or "none"

nvars == <<fn, sequence, n, ngrams, ngram_features, npc, nerr>>
pvars == <<csv, features, perm, data_df, X_data, label, sequences, ppc, perr>>
cvars == <<model, y_train, y_test, model1, fitted, y_pred, CM,
           accuray, F1_Score, Recall, AUC, output_csv, printed, cpc, cerr>>
vars == <<fn, sequence, n, ngrams, ngram_features, npc, nerr,
          csv, features, perm, data_df, X_data, label, sequences, ppc, perr,
          model, y_train, y_test, model1, fitted, y_pred, CM,
          accuray, F1_Score, Recall, AUC, output_csv, printed, cpc, cerr>>

(* ---------------------------------------------------------------------- *)
(* Bounds of the model                                                     *)
(* ---------------------------------------------------------------------- *)
\* direct calls: sequences over the first NSym symbols of amino_acids
NSym == 2
\* direct calls: longest sequence
MaxLen == 3
\* datasets: most records in the file
MaxRecords == 2
\* classifiers: most training records, most test records
MaxTrain == 2
MaxTest == 3
\* longest list of feature identifiers
MaxFeatures == 2
\* largest n the program passes to the n-gram functions (TrigramComp)
MaxN == 3

(* ---------------------------------------------------------------------- *)
(* generateFeatures.py : Python and library primitives                     *)
(* ---------------------------------------------------------------------- *)
Raise(e) == [err |-> e, val |-> <<>>]
Return(v) == [err |-> "none", val |-> v]

\* a list comprehension builds a list
List(f) == f \o <<>>

\* iterating a str yields its one-character strings
Chars(s) == [i \in 1..Len(s) |-> <<s[i]>>]

RECURSIVE product_lf(_, _)
\* a product whose LEFTMOST position varies fastest
product_lf(pool, repeat) ==
  IF repeat = 0 THEN << <<>> >>
  ELSE LET result == product_lf(pool, repeat - 1)
       IN  [i \in 1..(Len(result) * Len(pool)) |->
              Append(result[((i - 1) % Len(result)) + 1],
                     pool[((i - 1) \div Len(result)) + 1])]

RECURSIVE product(_, _)
\* itertools.product(pool, repeat=r) for r >= 0:
\*   result = [[]]; r times: result = [x+[y] for x in result for y in pool]
product(pool, repeat) ==
  IF repeat = 0 THEN << <<>> >>
  ELSE LET result == product(pool, repeat - 1)
       IN  [i \in 1..(Len(result) * Len(pool)) |->
              Append(result[((i - 1) \div Len(pool)) + 1],
                     pool[((i - 1) % Len(pool)) + 1])]

RECURSIVE join(_)
\* ''.join(t) : concatenation of the strings of the tuple t
join(t) == IF t = <<>> THEN <<>> ELSE Head(t) \o join(Tail(t))

\* [''.join(ngram) for ngram in tuples]
map_join(tuples) == List([i \in 1..Len(tuples) |-> join(tuples[i])])

RECURSIVE count_from(_, _, _)
\* str.count scanning from position i: matches are taken left to right and
\* the scan resumes AFTER the match (non-overlapping occurrences)
count_from(s, sub, i) ==
  IF i + Len(sub) - 1 > Len(s) THEN 0
  ELSE IF SubSeq(s, i, i + Len(sub) - 1) = sub
       THEN 1 + count_from(s, sub, i + Len(sub))
       ELSE count_from(s, sub, i + 1)

\* s.count(sub); the empty substring is found len(s)+1 times
str_count(s, sub) ==
  IF Len(sub) = 0 THEN Len(s) + 1 ELSE count_from(s, sub, 1)

\* the integer nearest to num / den (den > 0); an exact tie goes to the even
\* neighbour (the ties met here are binary fractions, held exactly by a float)
round_half_even(num, den) ==
  LET q == num \div den
      r == num % den
  IN  IF 2 * r < den THEN q
      ELSE IF 2 * r > den THEN q + 1
      ELSE IF q % 2 = 0 THEN q ELSE q + 1

\* round(c / len, 3), in thousandths
round3(c, len) == round_half_even(1000 * c, len)

\* the float nan that pandas.read_csv puts in an empty cell (the sequences of
\* the model never spell one of read_csv's other missing-value markers)
NaN == <<"nan">>

(* ---------------------------------------------------------------------- *)
(* generateFeatures.py : the two n-gram functions                          *)
(* ---------------------------------------------------------------------- *)
\* line 18: amino_acids = 'ACDEFGHIKLMNPQRSTVWY'
amino_acids ==
  <<"A","C","D","E","F","G","H","I","K","L","M","N","P","Q","R","S","T","V","W","Y">>

\* line 40: the same literal, written a second time
amino_acids_occurences ==
  <<"A","C","D","E","F","G","H","I","K","L","M","N","P","Q","R","S","T","V","W","Y">>

SeqsUpTo(S, L) == UNION {[1..m -> S] : m \in 0..L}
Symbols == {amino_acids[i] : i \in 1..NSym}
\* the sequences passed to direct calls
CallSeqs == SeqsUpTo(Symbols, MaxLen)
\* the records a dataset file is made of: one with an empty Sequence field,
\* two with different sequences and different labels
Records ==
  { [Sequence |-> <<>>, Label |-> 0],
    [Sequence |-> <<"A", "A">>, Label |-> 1],
    [Sequence |-> <<"A", "C", "A">>, Label |-> 0] }
DataSeqs == {r.Sequence : r \in Records}
NgramFunctions == {"generate_ngram_composition", "generate_ngram_occurences"}
\* the n the program uses (1..MaxN) and the invalid ones next to them
NDomain == {-1, 0} \cup (1..MaxN)

\* line 21 with the product's leftmost position varying fastest
composition_ngrams_lf(k) ==
  IF k < 0 THEN Raise("ValueError")
  ELSE Return(map_join(product_lf(Chars(amino_acids), k)))

\* line 21: ngrams of generate_ngram_composition; product rejects repeat < 0
composition_ngrams(k) ==
  IF k < 0 THEN Raise("ValueError")
  ELSE Return(map_join(product(Chars(amino_acids), k)))

\* line 43: ngrams of generate_ngram_occurences
occurences_ngrams(k) ==
  IF k < 0 THEN Raise("ValueError")
  ELSE Return(map_join(product(Chars(amino_acids_occurences), k)))

\* the two lists for every n of the model, computed once
CompositionNgramsTable == [k \in NDomain |-> composition_ngrams(k)] @@ <<>>
OccurencesNgramsTable == [k \in NDomain |-> occurences_ngrams(k)] @@ <<>>

\* line 24: [round(sequence.count(ngram) / len(sequence), 3) for ngram in ngrams]
composition_features(seq, ng) ==
  List([i \in 1..Len(ng) |-> round3(str_count(seq, ng[i]), Len(seq))])

\* line 46: [sequence.count(ngram) for ngram in ngrams]
occurence_features(seq, ng) ==
  List([i \in 1..Len(ng) |-> str_count(seq, ng[i])])

\* a list of zeros, one per n-gram
zero_features(ng) == List([i \in 1..Len(ng) |-> 0])

\* a composition that answers zeros for an empty sequence instead of dividing
generate_ngram_composition_guarded(seq, k) ==
  IF CompositionNgramsTable[k].err # "none" THEN CompositionNgramsTable[k]
  ELSE IF seq = NaN THEN Raise("AttributeError")
  ELSE IF Len(seq) = 0 THEN Return(zero_features(CompositionNgramsTable[k].val))
  ELSE Return(composition_features(seq, CompositionNgramsTable[k].val))

\* generate_ngram_composition(sequence, n), lines 6-26: a float cell has no
\* .count; len('') = 0 makes the first division raise
generate_ngram_composition(seq, k) ==
  IF CompositionNgramsTable[k].err # "none" THEN CompositionNgramsTable[k]
  ELSE IF seq = NaN THEN Raise("AttributeError")
  ELSE IF Len(seq) = 0 THEN Raise("ZeroDivisionError")
  ELSE Return(composition_features(seq, CompositionNgramsTable[k].val))

\* generate_ngram_occurences(sequence, n), lines 28-48
generate_ngram_occurences(seq, k) ==
  IF OccurencesNgramsTable[k].err # "none" THEN OccurencesNgramsTable[k]
  ELSE IF seq = NaN THEN Raise("AttributeError")
  ELSE Return(occurence_features(seq, OccurencesNgramsTable[k].val))

\* the values of the two functions on every input of the model, computed once
CompositionTable ==
  [s \in CallSeqs \cup DataSeqs \cup {NaN} |->
     [k \in NDomain |-> generate_ngram_composition(s, k)]] @@ <<>>
OccurencesTable ==
  [s \in CallSeqs \cup DataSeqs \cup {NaN} |->
     [k \in NDomain |-> generate_ngram_occurences(s, k)]] @@ <<>>

(* ---------------------------------------------------------------------- *)
(* Direct calls of the n-gram functions                                    *)
(* ---------------------------------------------------------------------- *)
NgramIdle ==
  /\ fn = "none" /\ sequence = <<>> /\ n = 0
  /\ ngrams = <<>> /\ ngram_features = <<>> /\ npc = "idle" /\ nerr = "none"

InitNgramCall ==
  /\ fn \in NgramFunctions
  /\ sequence \in CallSeqs
  /\ n \in NDomain
  /\ ngrams = <<>> /\ ngram_features = <<>>
  /\ npc = "start" /\ nerr = "none"

\* generate_ngram_composition, lines 18-21
CompositionNgrams ==
  /\ npc = "start" /\ fn = "generate_ngram_composition"
  /\ ngrams' = CompositionNgramsTable[n].val
  /\ nerr' = CompositionNgramsTable[n].err
  /\ npc' = IF CompositionNgramsTable[n].err = "none" THEN "ngrams" ELSE "raised"
  /\ UNCHANGED <<fn, sequence, n, ngram_features>>
  /\ UNCHANGED <<pvars, cvars>>

\* generate_ngram_composition, lines 24-26
CompositionFeatures ==
  /\ npc = "ngrams" /\ fn = "generate_ngram_composition"
  /\ ngram_features' = CompositionTable[sequence][n].val
  /\ nerr' = CompositionTable[sequence][n].err
  /\ npc' = IF CompositionTable[sequence][n].err = "none" THEN "returned" ELSE "raised"
  /\ UNCHANGED <<fn, sequence, n, ngrams>>
  /\ UNCHANGED <<pvars, cvars>>

\* generate_ngram_occurences, lines 40-43
OccurencesNgrams ==
  /\ npc = "start" /\ fn = "generate_ngram_occurences"
  /\ ngrams' = OccurencesNgramsTable[n].val
  /\ nerr' = OccurencesNgramsTable[n].err
  /\ npc' = IF OccurencesNgramsTable[n].err = "none" THEN "ngrams" ELSE "raised"
  /\ UNCHANGED <<fn, sequence, n, ngram_features>>
  /\ UNCHANGED <<pvars, cvars>>

\* generate_ngram_occurences, lines 46-48
OccurencesFeatures ==
  /\ npc = "ngrams" /\ fn = "generate_ngram_occurences"
  /\ ngram_features' = OccurencesTable[sequence][n].val
  /\ nerr' = OccurencesTable[sequence][n].err
  /\ npc' = IF OccurencesTable[sequence][n].err = "none" THEN "returned" ELSE "raised"
  /\ UNCHANGED <<fn, sequence, n, ngrams>>
  /\ UNCHANGED <<pvars, cvars>>

(* ---------------------------------------------------------------------- *)
(* generateFeatures.py : generate_features, concatenate_columns            *)
(* ---------------------------------------------------------------------- *)
\* the five identifiers the if-chain of generate_features names, and one
\* identifier it does not name (and that is no column of the dataset)
RecognizedNames ==
  {"MonogramComp", "BigramComp", "TrigramComp", "MonogramOccur", "BigramOccur"}
CompositionNames == {"MonogramComp", "BigramComp", "TrigramComp"}
UnrecognizedName == "TrigramOccur"
FeatureNames == RecognizedNames \cup {UnrecognizedName}

\* a chain whose else branch stores the column under the requested name
column_of_same(feat_name) == feat_name

\* lines 62-76: the column that the branch taken for feat_name assigns
column_of(feat_name) ==
  IF feat_name = "MonogramComp" THEN "MonogramComp"
  ELSE IF feat_name = "BigramComp" THEN "BigramComp"
  ELSE IF feat_name = "TrigramComp" THEN "TrigramComp"
  ELSE IF feat_name = "MonogramOccur" THEN "MonogramOccur"
  ELSE "BigramOccur"

\* lines 62-76: the lambda that the branch taken for feat_name applies
feature_of(feat_name, seq) ==
  IF feat_name = "MonogramComp" THEN CompositionTable[seq][1]
  ELSE IF feat_name = "BigramComp" THEN CompositionTable[seq][2]
  ELSE IF feat_name = "TrigramComp" THEN CompositionTable[seq][3]
  ELSE IF feat_name = "MonogramOccur" THEN OccurencesTable[seq][1]
  ELSE OccurencesTable[seq][2]

\* df[col] = values : every row gets (or has replaced) the cell of col
set_column(df, col, values) ==
  [i \in 1..Len(df) |->
     [c \in (DOMAIN df[i]) \cup {col} |-> IF c = col THEN values[i] ELSE df[i][c]]]

\* the first row, in row order, whose call raised
first_raised(results) ==
  CHOOSE i \in 1..Len(results) :
    /\ results[i].err # "none"
    /\ \A j \in 1..(i - 1) : results[j].err = "none"

\* df[column] = df['Sequence'].apply(lambda seq: f(seq)) for one feat_name
apply_feature(df, feat_name) ==
  LET results == [i \in 1..Len(df) |-> feature_of(feat_name, df[i].Sequence)]
  IN  IF \E i \in 1..Len(df) : results[i].err # "none"
      THEN Raise(results[first_raised(results)].err)
      ELSE Return(set_column(df, column_of(feat_name),
                             [i \in 1..Len(df) |-> results[i].val]))

RECURSIVE generate_features_from(_, _, _)
\* the loop of line 61, from the j-th identifier on
generate_features_from(df, feats, j) ==
  IF j > Len(feats) THEN Return(df)
  ELSE LET r == apply_feature(df, feats[j])
       IN  IF r.err # "none" THEN r
           ELSE generate_features_from(r.val, feats, j + 1)

\* generate_features(df, features), lines 51-78
generate_features(df, feats) == generate_features_from(df, feats, 1)

RECURSIVE concatenate_from_reversed(_, _, _, _)
\* a concatenation that PREPENDS each column's list
concatenate_from_reversed(row, columns, j, concatenated_list) ==
  IF j > Len(columns) THEN Return(concatenated_list)
  ELSE IF columns[j] \notin DOMAIN row THEN Raise("KeyError")
  ELSE concatenate_from_reversed(row, columns, j + 1,
                                 row[columns[j]] \o concatenated_list)

RECURSIVE concatenate_from(_, _, _, _)
\* lines 92-93: for col in columns: concatenated_list += row[col];
\* row[col] of a column the row does not have raises KeyError
concatenate_from(row, columns, j, concatenated_list) ==
  IF j > Len(columns) THEN Return(concatenated_list)
  ELSE IF columns[j] \notin DOMAIN row THEN Raise("KeyError")
  ELSE concatenate_from(row, columns, j + 1,
                        concatenated_list \o row[columns[j]])

\* concatenate_columns(row, columns), lines 80-94
concatenate_columns(row, columns) == concatenate_from(row, columns, 1, <<>>)

(* ---------------------------------------------------------------------- *)
(* generateFeatures.py : process_features                                  *)
(* ---------------------------------------------------------------------- *)
\* line 108: pd.read_csv; an empty Sequence field is read as the float nan
read_csv(rows) ==
  [i \in 1..Len(rows) |->
     [Sequence |-> IF rows[i].Sequence = <<>> THEN NaN ELSE rows[i].Sequence,
      Label |-> rows[i].Label]]

\* the permutations data_df.sample(frac = 1) can draw
Permutations_(m) ==
  {p \in [1..m -> 1..m] : \A i, j \in 1..m : p[i] = p[j] => i = j}

\* a shuffle that permutes the Sequence column but leaves Label in place
sample_sequences_only(df, p) ==
  [i \in 1..Len(df) |-> [Sequence |-> df[p[i]].Sequence, Label |-> df[i].Label]]

\* line 109: data_df.sample(frac = 1) with the drawn permutation p: whole rows move
sample(df, p) == [i \in 1..Len(df) |-> df[p[i]]]

Datasets == UNION {[1..m -> Records] : m \in 1..MaxRecords}
FeatureLists == UNION {[1..m -> FeatureNames] : m \in 1..MaxFeatures}

ProcessIdle ==
  /\ csv = <<>> /\ features = <<>> /\ perm = <<>> /\ data_df = <<>>
  /\ X_data = <<>> /\ label = <<>> /\ sequences = <<>>
  /\ ppc = "idle" /\ perr = "none"

InitProcess ==
  /\ csv \in Datasets
  /\ features \in FeatureLists
  /\ perm = <<>> /\ data_df = <<>>
  /\ X_data = <<>> /\ label = <<>> /\ sequences = <<>>
  /\ ppc = "start" /\ perr = "none"

\* lines 107-109: read the dataset and shuffle its rows
ReadAndShuffle ==
  /\ ppc = "start"
  /\ \E p \in Permutations_(Len(csv)) :
       /\ perm' = p
       /\ data_df' = sample(read_csv(csv), p)
  /\ ppc' = "shuffled"
  /\ UNCHANGED <<csv, features, X_data, label, sequences, perr>>
  /\ UNCHANGED <<nvars, cvars>>

\* lines 111-112: feature_df = generate_features(data_df, features)
GenerateFeatures ==
  /\ ppc = "shuffled"
  /\ LET r == generate_features(data_df, features)
     IN  IF r.err # "none"
         THEN /\ ppc' = "raised" /\ perr' = r.err /\ UNCHANGED data_df
         ELSE /\ ppc' = "generated" /\ perr' = "none" /\ data_df' = r.val
  /\ UNCHANGED <<csv, features, perm, X_data, label, sequences>>
  /\ UNCHANGED <<nvars, cvars>>

\* lines 114-123: the Features column, the selection of Features / Label /
\* Sequence with a fresh index, and the three returned values
AssembleAndReturn ==
  /\ ppc = "generated"
  /\ LET rows == [i \in 1..Len(data_df) |-> concatenate_columns(data_df[i], features)]
     IN  IF \E i \in 1..Len(data_df) : rows[i].err # "none"
         THEN /\ ppc' = "raised" /\ perr' = rows[first_raised(rows)].err
              /\ UNCHANGED <<data_df, X_data, label, sequences>>
         ELSE /\ ppc' = "returned" /\ perr' = "none"
              /\ data_df' = [i \in 1..Len(data_df) |->
                               [Features |-> rows[i].val,
                                Label |-> data_df[i].Label,
                                Sequence |-> data_df[i].Sequence]]
              /\ X_data' = [i \in 1..Len(data_df) |-> rows[i].val]
              /\ label' = [i \in 1..Len(data_df) |-> data_df[i].Label]
              /\ sequences' = [i \in 1..Len(data_df) |-> data_df[i].Sequence]
  /\ UNCHANGED <<csv, features, perm>>
  /\ UNCHANGED <<nvars, cvars>>

(* ---------------------------------------------------------------------- *)
(* predict.py : library primitives                                         *)
(* ---------------------------------------------------------------------- *)
\* the labels present in a vector
unique(y) == {y[i] : i \in 1..Len(y)}

\* the number of test records with true label t and predicted label q
cell(y_true, predicted, t, q) ==
  Cardinality({i \in 1..Len(y_true) : y_true[i] = t /\ predicted[i] = q})

\* the labels in increasing order
sorted_labels(labels) ==
  IF labels = {0, 1} THEN <<0, 1>>
  ELSE IF labels = {0} THEN <<0>>
  ELSE IF labels = {1} THEN <<1>> ELSE <<>>

\* sklearn.metrics.confusion_matrix(y_true, y_pred) without labels=: one row
\* and one column per label that occurs in y_true or y_pred, so the matrix
\* is 1x1 when a single label occurs
confusion_matrix(y_true, predicted) ==
  [i \in 1..Cardinality(unique(y_true) \cup unique(predicted)) |->
     [j \in 1..Cardinality(unique(y_true) \cup unique(predicted)) |->
        cell(y_true, predicted,
             sorted_labels(unique(y_true) \cup unique(predicted))[i],
             sorted_labels(unique(y_true) \cup unique(predicted))[j])]]

\* numpy CM += m for the 2x2 CM: a 1x1 operand is broadcast to every cell
iadd(cm, m) ==
  [i \in 1..2 |-> [j \in 1..2 |->
     cm[i][j] + (IF Len(m) = 1 THEN m[1][1] ELSE m[i][j])]]

\* CM.ravel()
ravel(cm) == <<cm[1][1], cm[1][2], cm[2][1], cm[2][2]>>

\* a float result: the exact fraction num / den, or nan
Frac(num, den) == [nan |-> FALSE, num |-> num, den |-> den]
NotANumber == [nan |-> TRUE, num |-> 0, den |-> 1]

\* numpy int64 / int64: 0 / 0 is nan with a RuntimeWarning, no exception
\* (the numerators here are 0 whenever the denominator is 0)
np_divide(num, den) == IF den = 0 THEN NotANumber ELSE Frac(num, den)

\* a ratio metric of sklearn with zero_division="warn": 0.0 for a zero denominator
sk_divide(num, den) == IF den = 0 THEN Frac(0, 1) ELSE Frac(num, den)

\* x * c
times(x, c) == IF x.nan THEN x ELSE Frac(x.num * c, x.den)

\* '{0:.df}'.format(x): x rounded to d decimals, held as the integer x * 10^d
format(x, d) ==
  IF x.nan THEN [nan |-> TRUE, val |-> 0]
  ELSE [nan |-> FALSE, val |-> round_half_even(x.num * (10 ^ d), x.den)]

\* accuracy_score(y_true, y_pred)
accuracy_score(y_true, predicted) ==
  sk_divide(cell(y_true, predicted, 0, 0) + cell(y_true, predicted, 1, 1),
            Len(y_true))

\* f1_score(y_true, y_pred) = 2TP / (2TP + FP + FN)
f1_score(y_true, predicted) ==
  sk_divide(2 * cell(y_true, predicted, 1, 1),
            2 * cell(y_true, predicted, 1, 1) + cell(y_true, predicted, 0, 1)
              + cell(y_true, predicted, 1, 0))

\* recall_score(y_true, y_pred) = TP / (TP + FN)
recall_score(y_true, predicted) ==
  sk_divide(cell(y_true, predicted, 1, 1),
            cell(y_true, predicted, 1, 1) + cell(y_true, predicted, 1, 0))

\* roc_curve + auc: with a single class in y_true one rate is nan (an
\* UndefinedMetricWarning, no exception) and so is the area; otherwise the
\* area depends on y_proba, which the model leaves open
roc_auc_defined(y_true) == unique(y_true) = {0, 1}

(* ---------------------------------------------------------------------- *)
(* predict.py : classifiers                                                *)
(* ---------------------------------------------------------------------- *)
SupportedModels == {"svm-rbf", "svm-linear"}
UnsupportedModel == "svm-poly"
Models == SupportedModels \cup {UnsupportedModel}
LabelVectors(L) == UNION {[1..m -> {0, 1}] : m \in 1..L}

ClassifiersIdle ==
  /\ model = "none" /\ y_train = <<>> /\ y_test = <<>>
  /\ model1 = "unbound" /\ fitted = FALSE /\ y_pred = <<>>
  /\ CM = <<>> /\ accuray = <<>> /\ F1_Score = <<>> /\ Recall = <<>> /\ AUC = <<>>
  /\ output_csv = <<>> /\ printed = <<>>
  /\ cpc = "idle" /\ cerr = "none"

InitClassifiersCall ==
  /\ model \in Models
  /\ y_train \in LabelVectors(MaxTrain)
  /\ y_test \in LabelVectors(MaxTest)
  /\ model1 = "unbound" /\ fitted = FALSE /\ y_pred = <<>>
  /\ CM = <<>> /\ accuray = <<>> /\ F1_Score = <<>> /\ Recall = <<>> /\ AUC = <<>>
  /\ output_csv = <<>> /\ printed = <<>>
  /\ cpc = "start" /\ cerr = "none"

\* lines 38-41: the if / elif without else
select(m) ==
  IF m = "svm-rbf" THEN "rbf"
  ELSE IF m = "svm-linear" THEN "linear"
  ELSE "unbound"

\* lines 26-41: the empty metric lists, the zero matrix, the model selection
SelectModel ==
  /\ cpc = "start"
  /\ accuray' = <<>> /\ F1_Score' = <<>> /\ Recall' = <<>> /\ AUC' = <<>>
  /\ CM' = << <<0, 0>>, <<0, 0>> >>
  /\ model1' = select(model)
  /\ cpc' = "selected"
  /\ UNCHANGED <<model, y_train, y_test, fitted, y_pred, output_csv, printed, cerr>>
  /\ UNCHANGED <<nvars, pvars>>

\* line 44: model1.fit(x_train, y_train); reading the unassigned local raises
\* UnboundLocalError, SVC.fit rejects a y_train with a single class
Fit ==
  /\ cpc = "selected"
  /\ IF model1 = "unbound"
       THEN /\ cpc' = "raised" /\ cerr' = "UnboundLocalError" /\ UNCHANGED fitted
       ELSE IF unique(y_train) # {0, 1}
         THEN /\ cpc' = "raised" /\ cerr' = "ValueError" /\ UNCHANGED fitted
         ELSE /\ cpc' = "fitted" /\ fitted' = TRUE /\ UNCHANGED cerr
  /\ UNCHANGED <<model, y_train, y_test, model1, y_pred, CM,
                 accuray, F1_Score, Recall, AUC, output_csv, printed>>
  /\ UNCHANGED <<nvars, pvars>>

\* lines 45-46: the predictions of the fitted classifier, any vector over
\* the classes seen in training
Predict ==
  /\ cpc = "fitted"
  /\ y_pred' \in [1..Len(y_test) -> unique(y_train)]
  /\ cpc' = "predicted"
  /\ UNCHANGED <<model, y_train, y_test, model1, fitted, CM,
                 accuray, F1_Score, Recall, AUC, output_csv, printed, cerr>>
  /\ UNCHANGED <<nvars, pvars>>

\* lines 48-60: CM += confusion_matrix(...), the metric lists, accuracy in percent
Score ==
  /\ cpc = "predicted"
  /\ CM' = iadd(CM, confusion_matrix(y_test, y_pred))
  /\ accuray' = <<times(accuracy_score(y_test, y_pred), 100)>>
  /\ F1_Score' = Append(F1_Score, f1_score(y_test, y_pred))
  /\ Recall' = Append(Recall, recall_score(y_test, y_pred))
  /\ AUC' = Append(AUC, IF roc_auc_defined(y_test) THEN "defined" ELSE "nan")
  /\ cpc' = "scored"
  /\ UNCHANGED <<model, y_train, y_test, model1, fitted, y_pred,
                 output_csv, printed, cerr>>
  /\ UNCHANGED <<nvars, pvars>>

\* lines 62-67: output.csv, one row per test record in test order
WriteReport ==
  /\ cpc = "scored"
  /\ output_csv' =
       [i \in 1..Len(y_test) |->
          [TrueValue |-> IF y_test[i] = 1 THEN "Positive" ELSE "Negative",
           Prediction |-> IF y_pred[i] = 1 THEN "Positive" ELSE "Negative"]]
  /\ cpc' = "written"
  /\ UNCHANGED <<model, y_train, y_test, model1, fitted, y_pred, CM,
                 accuray, F1_Score, Recall, AUC, printed, cerr>>
  /\ UNCHANGED <<nvars, pvars>>

\* lines 69-78: the printed report; TN, FP, FN, TP = CM.ravel()
PrintReport ==
  /\ cpc = "written"
  /\ printed' =
       [TN |-> ravel(CM)[1], FP |-> ravel(CM)[2],
        FN |-> ravel(CM)[3], TP |-> ravel(CM)[4],
        Accuracy |-> format(accuray[1], 4),
        Sensitivity |->
          format(times(np_divide(ravel(CM)[4], ravel(CM)[4] + ravel(CM)[3]), 100), 2),
        Specificity |->
          format(times(np_divide(ravel(CM)[1], ravel(CM)[1] + ravel(CM)[2]), 100), 2),
        F1_Score |-> format(F1_Score[1], 2),
        AUC |-> AUC[1]]
  /\ cpc' = "printed"
  /\ UNCHANGED <<model, y_train, y_test, model1, fitted, y_pred, CM,
                 accuray, F1_Score, Recall, AUC, output_csv, cerr>>
  /\ UNCHANGED <<nvars, pvars>>

NextClassifiers ==
  \/ SelectModel
  \/ Fit
  \/ Predict
  \/ Score
  \/ WriteReport
  \/ PrintReport

InitClassifiers == NgramIdle /\ ProcessIdle /\ InitClassifiersCall
\* calls of classifiers
SpecClassifiers == InitClassifiers /\ [][NextClassifiers]_vars

(* ---------------------------------------------------------------------- *)
(* Specifications of generateFeatures.py                                   *)
(* ---------------------------------------------------------------------- *)
NextNgram ==
  \/ CompositionNgrams
  \/ CompositionFeatures
  \/ OccurencesNgrams
  \/ OccurencesFeatures

NextProcess ==
  \/ ReadAndShuffle
  \/ GenerateFeatures
  \/ AssembleAndReturn

InitNgram == InitNgramCall /\ ProcessIdle /\ ClassifiersIdle
InitFeatures == NgramIdle /\ InitProcess /\ ClassifiersIdle

\* direct calls of generate_ngram_composition / generate_ngram_occurences
SpecNgram == InitNgram /\ [][NextNgram]_vars
\* runs of process_features
SpecProcess == InitFeatures /\ [][NextProcess]_vars

Init == InitNgram \/ InitFeatures
Next == NextNgram \/ NextProcess
\* generateFeatures.py as a whole
Spec == Init /\ [][Next]_vars


(* ---------------------------------------------------------------------- *)
(* Properties                                                              *)
(* ---------------------------------------------------------------------- *)
\* number of symbols of the alphabet
AlphabetSize == 20

Range(f) == {f[i] : i \in DOMAIN f}

\* the number of start positions at which sub occurs in s
StartPositions(s, sub) ==
  Cardinality({j \in 1..(Len(s) - Len(sub) + 1) : SubSeq(s, j, j + Len(sub) - 1) = sub})

\* C1: the entry that generate_ngram_occurences returns for a k-mer (k in
\* 1..3) is the number of start positions at which the k-mer occurs in the
\* sequence, overlapping matches included ("AA" in "AAA" counts 2).
C1_OverlappingCount ==
  (fn = "generate_ngram_occurences" /\ npc = "returned" /\ n \in 1..MaxN)
    => \A i \in 1..Len(ngrams) :
         ngram_features[i] = StartPositions(sequence, ngrams[i])

\* the i-th string of length k in alphabet order, rightmost position fastest
KmerAt(i, k) ==
  [pos \in 1..k |->
     amino_acids[(((i - 1) \div (AlphabetSize ^ (k - pos))) % AlphabetSize) + 1]]

\* C2: for k in 1..3 the k-mer list has 20^k entries, each of length k, no
\* duplicates, in alphabet order with the rightmost position varying
\* fastest; the list depends on k only, so it is the same in every call and
\* in both functions.
C2_KmerList ==
  (npc \in {"ngrams", "returned", "raised"} /\ n \in 1..MaxN)
    => /\ Len(ngrams) = AlphabetSize ^ n
       /\ \A i \in 1..Len(ngrams) : ngrams[i] = KmerAt(i, n)
       /\ \A i \in 1..Len(ngrams) : Len(ngrams[i]) = n
       /\ Cardinality(Range(ngrams)) = Len(ngrams)

C2_Witness ==
  /\ npc = "returned" /\ fn = "generate_ngram_occurences" /\ n = MaxN
  /\ ngrams[2] = <<"A", "A", "C">>
  /\ ngrams[Len(ngrams)] = <<"Y", "Y", "Y">>

\* the k and the mode that each recognized identifier stands for
KOf(name) ==
  CASE name = "MonogramComp" -> 1
    [] name = "BigramComp" -> 2
    [] name = "TrigramComp" -> 3
    [] name = "MonogramOccur" -> 1
    [] name = "BigramOccur" -> 2

\* the standalone feature vector of a sequence for a recognized identifier
Standalone(name, seq) ==
  IF name \in CompositionNames
  THEN CompositionTable[seq][KOf(name)].val
  ELSE OccurencesTable[seq][KOf(name)].val

Width(name) == AlphabetSize ^ KOf(name)

RECURSIVE Offset(_, _)
\* the number of row entries before the block of the j-th identifier
Offset(feats, j) ==
  IF j = 1 THEN 0 ELSE Offset(feats, j - 1) + Width(feats[j - 1])

\* C3: the combined row of every record is the concatenation, in the order
\* of feature_names, of the record's standalone per-identifier vectors.
C3_RowOrder ==
  ppc = "returned"
    => \A i \in 1..Len(X_data) :
         /\ Len(X_data[i]) = Offset(features, Len(features) + 1)
         /\ \A j \in 1..Len(features) :
              SubSeq(X_data[i], Offset(features, j) + 1,
                     Offset(features, j) + Width(features[j]))
                = Standalone(features[j], sequences[i])

C3_Witness ==
  /\ ppc = "returned"
  /\ features = <<"MonogramComp", "BigramComp">>
  /\ sequences[1] = <<"A", "A">>
  /\ Len(X_data[1]) = 420
  /\ X_data[1][1] = 1000 /\ X_data[1][21] = 500

AllSequencesNonEmpty == \A i \in 1..Len(csv) : csv[i].Sequence # <<>>

\* the vector an identifier would contribute if every unrecognized
\* identifier stood for BigramOccur
StandaloneOrBigramOccur(name, seq) ==
  IF name \in RecognizedNames THEN Standalone(name, seq)
  ELSE OccurencesTable[seq][2].val

RECURSIVE FallbackRow(_, _, _)
FallbackRow(seq, feats, j) ==
  IF j > Len(feats) THEN <<>>
  ELSE StandaloneOrBigramOccur(feats[j], seq) \o FallbackRow(seq, feats, j + 1)

C5_ConfusionTotal ==
  (cpc \in {"scored", "written", "printed"})
    => ravel(CM)[1] + ravel(CM)[2] + ravel(CM)[3] + ravel(CM)[4] = Len(y_test)

\* C6: when the test set has no positive or no negative record, the
\* evaluation ends in a data-insufficiency error and prints no report.
C6_GuardedRates ==
  (fitted /\ unique(y_test) # {0, 1} /\ cpc \in {"printed", "raised"})
    => /\ cpc = "raised"
       /\ cerr = "DataInsufficiencyError"
       /\ printed = <<>>

\* C7: for a model other than 'svm-rbf' and 'svm-linear' the call ends, at
\* the model selection, in an "unsupported model kind" error; nothing is
\* fitted, written or printed.
C7_UnsupportedModel ==
  (model \notin SupportedModels /\ cpc \in {"raised", "printed"})
    => /\ cpc = "raised"
       /\ cerr = "UnsupportedModelKind"
       /\ model1 = "unbound" /\ ~fitted /\ output_csv = <<>> /\ printed = <<>>

\* C8: for n < 1 both n-gram functions end in an error and return no vector.
C8_InvalidN ==
  (n < 1 /\ npc \in {"returned", "raised"})
    => /\ npc = "raised"
       /\ ngram_features = <<>>

\* C9: generate_ngram_composition("", k), k in 1..3, raises and returns no
\* vector; a dataset with an empty Sequence makes a run with a composition
\* identifier fail as a whole, without rows.
C9_EmptyComposition ==
  /\ (fn = "generate_ngram_composition" /\ sequence = <<>> /\ n \in 1..MaxN)
       => /\ npc # "returned"
          /\ ngram_features = <<>>
          /\ npc = "raised" => nerr = "ZeroDivisionError"
  /\ ((\E i \in 1..Len(csv) : csv[i].Sequence = <<>>)
        /\ Range(features) \cap CompositionNames # {})
       => /\ ppc \notin {"generated", "returned"}
          /\ X_data = <<>>
          /\ ppc \notin {"start", "shuffled"} => (ppc = "raised" /\ perr # "none")

C9_Witness ==
  /\ fn = "generate_ngram_composition" /\ sequence = <<>> /\ n = MaxN
  /\ npc = "raised" /\ nerr = "ZeroDivisionError"

RECURSIVE ExpectedRow(_, _, _)
\* the row of a sequence: the standalone vectors of feats[j..], in order
ExpectedRow(seq, feats, j) ==
  IF j > Len(feats) THEN <<>>
  ELSE Standalone(feats[j], seq) \o ExpectedRow(seq, feats, j + 1)

\* C10: the three outputs have the length of the dataset; with the drawn
\* permutation p, sequences[i] and label[i] are the Sequence and the Label of
\* input record p[i], and X[i] is the row computed from sequences[i].
C10_IndexAligned ==
  ppc = "returned"
    => /\ Len(X_data) = Len(csv) /\ Len(label) = Len(csv) /\ Len(sequences) = Len(csv)
       /\ perm \in Permutations_(Len(csv))
       /\ \A i \in 1..Len(csv) :
            /\ sequences[i] = csv[perm[i]].Sequence
            /\ label[i] = csv[perm[i]].Label
            /\ X_data[i] = ExpectedRow(sequences[i], features, 1)

C10_Witness ==
  /\ ppc = "returned"
  /\ Len(csv) = 2 /\ perm = <<2, 1>>
  /\ csv[1].Sequence # csv[2].Sequence /\ csv[1].Label # csv[2].Label
  /\ AllSequencesNonEmpty
  /\ features = <<"BigramOccur", "MonogramComp">>

====
